---------------------------- MODULE Spec2Model ----------------------------
(***************************************************************************)
(* State-machine model of the analysis front end: the Dashboard workflow   *)
(* (FileUpload, DataProfile, ModelTraining, Predictions), the train and    *)
(* predict requests of the data API client, and the ModelPredictions page. *)
(* Strings the code inspects character by character (column names,         *)
(* feature names, categories) are sequences of one-character strings.      *)
(***************************************************************************)
EXTENDS Integers, Sequences, FiniteSets, TLC

(***************************************************************************)
(* Bounds of the model.                                                    *)
(***************************************************************************)
MaxUploads == 2

MaxTrainRequests == 2

MaxPredictRequests == 1

MaxRows == 2

MaxFeatureRequests == 2

MaxAuthRequests == 3

(***************************************************************************)
(* String helpers (JavaScript String methods on character sequences).      *)
(***************************************************************************)
Range(s) == {s[i] : i \in DOMAIN s}

StartsWith(s, p) == Len(p) <= Len(s) /\ SubSeq(s, 1, Len(p)) = p

EndsWith(s, p) == Len(p) <= Len(s) /\ SubSeq(s, Len(s) - Len(p) + 1, Len(s)) = p

Includes(s, sub) ==
  \E i \in 0..(Len(s) - Len(sub)) : SubSeq(s, i + 1, i + Len(sub)) = sub

LowerChar(c) ==
  CASE c = "C" -> "c"
    [] c = "I" -> "i"
    [] c = "D" -> "d"
    [] c = "A" -> "a"
    [] c = "S" -> "s"
    [] c = "V" -> "v"
    [] OTHER -> c

ToLowerCase(s) == [i \in 1..Len(s) |-> LowerChar(s[i])]

ReplaceAll(s, from, to) == [i \in 1..Len(s) |-> IF s[i] = from THEN to ELSE s[i]]

(***************************************************************************)
(* The profile the server returns for an uploaded dataset: its schema.     *)
(***************************************************************************)
ColId == <<"I", "D">>

ColAge == <<"a", "g", "e">>

ColChurn == <<"C", "h", "u", "r", "n">>

Schema == <<ColId, ColAge, ColChurn>>

SchemaNames == Range(Schema)

NoColumn == <<>>

targetNames ==
  { <<"t","a","r","g","e","t">>, <<"l","a","b","e","l">>, <<"c","l","a","s","s">>,
    <<"c","h","u","r","n">>, <<"s","u","r","v","i","v","e","d">>,
    <<"p","r","i","c","e">>, <<"s","a","l","e","s">> }

nonPredictiveColumns ==
  { <<"i","d">>, <<"c","u","s","t","o","m","e","r","_","i","d">>,
    <<"u","s","e","r","_","i","d">>, <<"u","i","d">>, <<"u","u","i","d">>,
    <<"i","n","d","e","x">>, <<"r","o","w","_","i","d">> }

IsTargetName(c) == \E n \in targetNames : Includes(ToLowerCase(c), n)

IsNonPredictive(c) == \E n \in nonPredictiveColumns : Includes(ToLowerCase(c), n)

\* data.schema.find(...): the first matching column, NoColumn when none matches
autoTarget ==
  IF \E i \in DOMAIN Schema : IsTargetName(Schema[i])
    THEN Schema[CHOOSE i \in DOMAIN Schema :
                  /\ IsTargetName(Schema[i])
                  /\ \A j \in 1..(i - 1) : ~IsTargetName(Schema[j])]
    ELSE NoColumn

autoExcluded == {c \in SchemaNames : IsNonPredictive(c)}

(***************************************************************************)
(* Toast messages and server error details.                                *)
(***************************************************************************)
NoDetail == ""

Details == {NoDetail, "Target column has a single distinct value"}

TimeoutMessage ==
  "Training timed out. This can happen with large datasets. Please try again or use a smaller dataset."

NoToast == [level |-> "none", msg |-> ""]

ToastError(m) == [level |-> "error", msg |-> m]

ToastSuccess(m) == [level |-> "success", msg |-> m]

\* error.response?.data?.detail || fallback
DetailOr(detail, fallback) == IF detail # NoDetail THEN detail ELSE fallback

VARIABLES
  appState,     \* Dashboard: sessionId, modelId, featureNames, currentStep
  fileUpload,   \* FileUpload: isUploading, uploadProgress
  uploads,      \* upload requests and their delayed onUploadSuccess timers
  dataProfile,  \* DataProfile: isLoading, profile; reqs = getProfile calls in flight
  mt,           \* ModelTraining component state
  jobs,         \* train requests and the server-side training they started
  pred,         \* Predictions component state
  predReqs,     \* predict requests sent by Predictions
  mp,           \* ModelPredictions component state
  mpFeatureReqs,\* getModelFeatures calls of ModelPredictions in flight
  mpPredReq,    \* the predict request of ModelPredictions in flight
  toast,        \* the toast shown last
  lastDrop,     \* the file dropped last
  storage,      \* localStorage: access_token, refresh_token, user_profile
  authCtx,      \* AuthProvider: user, isLoading
  authReqs,     \* the requests of the auth client and of data requests seen by it
  location      \* window.location: href, and whether the page is being loaded

vars == <<appState, fileUpload, uploads, dataProfile, mt, jobs, pred, predReqs,
          mp, mpFeatureReqs, mpPredReq, toast, lastDrop,
          storage, authCtx, authReqs, location>>

dashboardVars == <<appState, fileUpload, uploads, dataProfile, mt, jobs, pred, predReqs>>

mpVars == <<mp, mpFeatureReqs, mpPredReq>>

authVars == <<storage, authCtx, authReqs, location>>

NoSession == 0

NoModel == 0

(***************************************************************************)
(* Component states at mount and after unmount.                            *)
(***************************************************************************)
FileUploadInit == [isUploading |-> FALSE, uploadProgress |-> 0]

\* 50 * 1024 * 1024
MaxFileSize == 52428800

CsvSuffix == <<".", "c", "s", "v">>

NameLowerCsv == <<"a", ".", "c", "s", "v">>

NameUpperCsv == <<"A", ".", "C", "S", "V">>

NameTxt == <<"a", ".", "t", "x", "t">>

NameNoDot == <<"c", "s", "v">>

File(name, size, type) == [name |-> name, size |-> size, type |-> type]

\* the files a user drops: a name, a size in bytes and a MIME type
DroppedFiles ==
  { File(NameLowerCsv, 1, "text/csv"),
    File(NameUpperCsv, MaxFileSize, "text/plain"),
    File(NameLowerCsv, MaxFileSize + 1, "text/csv"),
    File(NameUpperCsv, MaxFileSize + 1, "text/plain"),
    File(NameTxt, 1, "text/csv"),
    File(NameTxt, 1, "text/plain"),
    File(NameNoDot, 1, "text/csv") }

\* the files dropped in the whole workflow: one CSV file, one other file
WorkflowFiles == {File(NameLowerCsv, 1, "text/csv"), File(NameTxt, 1, "text/plain")}

\* useDropzone's accept: the MIME type is listed, or the name ends in a listed
\* extension
DropzoneAccepts(file) ==
  \/ file.type \in {"text/csv", "application/csv"}
  \/ EndsWith(ToLowerCase(file.name), CsvSuffix)

\* what the dropzone hands to onDrop: the file if it accepts it (maxFiles: 1)
acceptedFiles(file) == IF DropzoneAccepts(file) THEN <<file>> ELSE <<>>

\* file.name.toLowerCase().endsWith('.csv')
IsCsvName(name) == EndsWith(ToLowerCase(name), CsvSuffix)

\* !(file.size > 50 * 1024 * 1024)
IsAllowedSize(size) == ~(size > MaxFileSize)

\* an upload request of onDrop: the file sent, the progress interval, the
\* delayed onUploadSuccess
uploadFile(file) == [file |-> file, state |-> "inflight", ticking |-> TRUE, live |-> TRUE]

\* the upload that gave the session of a ModelTraining mounted on its own
FirstUpload ==
  [file |-> File(NameLowerCsv, 1, "text/csv"),
   state |-> "fired", ticking |-> FALSE, live |-> FALSE]

DataProfileUnmounted == [mounted |-> FALSE, isLoading |-> FALSE, profile |-> NoSession, reqs |-> {}]

\* useState initial values, then the mount effect calls loadProfile
DataProfileMount(sessionId) ==
  [mounted |-> TRUE, isLoading |-> TRUE, profile |-> NoSession, reqs |-> {sessionId}]

ModelTrainingUnmounted ==
  [mounted |-> FALSE, profile |-> FALSE, profileReq |-> FALSE, isLoading |-> FALSE,
   isTraining |-> FALSE, trainingResult |-> NoModel, targetColumn |-> NoColumn,
   modelType |-> "classification", algorithm |-> "random_forest",
   excludedColumns |-> {}]

ModelTrainingMount ==
  [mounted |-> TRUE, profile |-> FALSE, profileReq |-> TRUE, isLoading |-> TRUE,
   isTraining |-> FALSE, trainingResult |-> NoModel, targetColumn |-> NoColumn,
   modelType |-> "classification", algorithm |-> "random_forest",
   excludedColumns |-> {}]

\* a component that unmounts abandons its requests: later setState calls are no-ops
Orphan(reqs) == [i \in DOMAIN reqs |-> [reqs[i] EXCEPT !.live = FALSE]]

(***************************************************************************)
(* Dashboard                                                               *)
(***************************************************************************)
DashboardInit ==
  [sessionId |-> NoSession, modelId |-> NoModel, featureNames |-> <<>>,
   currentStep |-> "upload", isLoading |-> FALSE, error |-> ""]

steps == <<"upload", "profile", "train", "predict", "summary", "ai-analysis">>

StepIndex(s) == CHOOSE i \in DOMAIN steps : steps[i] = s


handleFileUploadSuccess(prev, sessionId) ==
  [prev EXCEPT !.sessionId = sessionId, !.currentStep = "profile", !.error = ""]

handleProfileComplete(prev) == [prev EXCEPT !.currentStep = "train"]

handleTrainingComplete(prev, modelId, featureNames) ==
  [prev EXCEPT !.modelId = modelId, !.featureNames = featureNames,
               !.currentStep = "predict"]

handlePredictionComplete(prev) == [prev EXCEPT !.currentStep = "summary"]

handleSummaryComplete(prev) == [prev EXCEPT !.currentStep = "ai-analysis"]

(***************************************************************************)
(* The features the server lists for a trained model: the schema columns   *)
(* its train request neither targeted nor excluded.                        *)
(***************************************************************************)
EmptyValue == <<>>

ColumnDtype(c) == IF c = ColChurn THEN "categorical" ELSE "numerical"

ColumnSamples(c) == IF c = ColChurn THEN << <<"y">>, <<"n">> >> ELSE <<>>

Feature(c) == [name |-> c, dtype |-> ColumnDtype(c), sample_values |-> ColumnSamples(c)]

ServerModelFeatures(modelId) ==
  LET req == jobs[modelId].request
      keep == {c \in SchemaNames : c # req.target_column /\ c \notin req.excluded_columns}
  IN  SelectSeq([i \in DOMAIN Schema |-> Feature(Schema[i])],
                LAMBDA f : f.name \in keep)

\* names.reduce((acc, f) => ({ ...acc, [f]: '' }), {})
BlankRow(names) == [k \in names |-> EmptyValue]

FeatureNameSet(features) == {features[i].name : i \in DOMAIN features}

PredictionsUnmounted ==
  [mounted |-> FALSE, modelFeatures |-> <<>>, inputData |-> <<>>,
   isLoadingFeatures |-> FALSE, featuresReq |-> FALSE, isPredicting |-> FALSE,
   predictionResult |-> FALSE]

\* useState initial values; the mount effect calls loadModelFeatures, which
\* sets isLoadingFeatures before its first await
PredictionsMount(featureNames) ==
  [mounted |-> TRUE, modelFeatures |-> <<>>,
   inputData |-> << BlankRow(Range(featureNames)) >>,
   isLoadingFeatures |-> TRUE, featuresReq |-> TRUE, isPredicting |-> FALSE,
   predictionResult |-> FALSE]

(***************************************************************************)
(* Dashboard's render after a state change: the component of the current   *)
(* step is mounted, every other component is unmounted.                    *)
(***************************************************************************)
Render(newApp, newUploads) ==
  LET stays(s) == appState.currentStep = s /\ newApp.currentStep = s
  IN
  /\ appState' = newApp
  /\ fileUpload' = IF stays("upload") THEN fileUpload ELSE FileUploadInit
  /\ uploads' = IF stays("upload") THEN newUploads ELSE Orphan(newUploads)
  /\ dataProfile' =
       IF newApp.currentStep # "profile" THEN DataProfileUnmounted
       ELSE IF ~stays("profile") THEN DataProfileMount(newApp.sessionId)
       ELSE IF newApp.sessionId # appState.sessionId
         \* the sessionId prop changed: the effect runs loadProfile again
         THEN [dataProfile EXCEPT !.isLoading = TRUE,
                                  !.reqs = @ \cup {newApp.sessionId}]
       ELSE dataProfile
  /\ mt' = IF stays("train") THEN mt
           ELSE IF newApp.currentStep = "train" THEN ModelTrainingMount
           ELSE ModelTrainingUnmounted
  /\ jobs' = IF stays("train") THEN jobs ELSE Orphan(jobs)
  /\ pred' = IF stays("predict") THEN pred
             ELSE IF newApp.currentStep = "predict" /\ newApp.modelId # NoModel
               THEN PredictionsMount(newApp.featureNames)
             ELSE PredictionsUnmounted
  /\ predReqs' = IF stays("predict") THEN predReqs ELSE Orphan(predReqs)

resetApp ==
  /\ Render(DashboardInit, uploads)
  /\ UNCHANGED toast
  /\ UNCHANGED <<mpVars, lastDrop, authVars>>

(***************************************************************************)
(* FileUpload                                                              *)
(***************************************************************************)
\* onDrop up to its await; the dropzone is disabled while isUploading
onDrop(files) ==
  /\ appState.currentStep = "upload"
  /\ ~fileUpload.isUploading
  /\ IF files = <<>>
       THEN UNCHANGED <<fileUpload, uploads, toast>>
     ELSE IF ~IsCsvName(files[1].name)
       THEN /\ toast' = ToastError("Please upload a CSV file")
            /\ UNCHANGED <<fileUpload, uploads>>
     ELSE IF ~IsAllowedSize(files[1].size)
       THEN /\ toast' = ToastError("File size must be less than 50MB")
            /\ UNCHANGED <<fileUpload, uploads>>
     ELSE /\ Len(uploads) < MaxUploads
          /\ fileUpload' = [isUploading |-> TRUE, uploadProgress |-> 0]
          /\ uploads' = Append(uploads, uploadFile(files[1]))
          /\ UNCHANGED toast
  /\ UNCHANGED <<appState, dataProfile, mt, jobs, pred, predReqs>>
  /\ UNCHANGED <<mpVars, authVars>>

\* the user drops a file on the dropzone, which calls onDrop
DropFile(file) ==
  /\ lastDrop' = <<file>>
  /\ onDrop(acceptedFiles(file))

\* uploadProgress after one callback of the progress interval
ProgressAfterTick(prev) == IF prev >= 90 THEN 90 ELSE prev + 10

\* the setInterval callback of upload i, every 200ms; at 90 it clears itself
ProgressTick(i) ==
  /\ uploads[i].ticking
  /\ uploads' = [uploads EXCEPT ![i].ticking = ~(uploads[i].live /\ fileUpload.uploadProgress >= 90)]
  /\ fileUpload' = IF uploads[i].live
                     THEN [fileUpload EXCEPT !.uploadProgress = ProgressAfterTick(@)]
                     ELSE fileUpload
  /\ uploads' # uploads \/ fileUpload' # fileUpload
  /\ UNCHANGED <<appState, dataProfile, mt, jobs, pred, predReqs, toast>>
  /\ UNCHANGED <<mpVars, lastDrop, authVars>>

\* the upload response: progress 100, onUploadSuccess scheduled 500ms later
UploadSucceeds(i) ==
  /\ uploads[i].state = "inflight"
  /\ uploads' = [uploads EXCEPT ![i].state = "timer", ![i].ticking = FALSE]
  /\ fileUpload' = IF uploads[i].live
                     THEN [isUploading |-> FALSE, uploadProgress |-> 100]
                     ELSE fileUpload
  /\ UNCHANGED <<appState, dataProfile, mt, jobs, pred, predReqs, toast>>
  /\ UNCHANGED <<mpVars, lastDrop, authVars>>

UploadFails(i, detail) ==
  /\ uploads[i].state = "inflight"
  /\ uploads' = [uploads EXCEPT ![i].state = "failed"]
  /\ toast' = ToastError(DetailOr(detail, "Upload failed"))
  /\ fileUpload' = IF uploads[i].live
                     THEN [isUploading |-> FALSE, uploadProgress |-> 0]
                     ELSE fileUpload
  /\ UNCHANGED <<appState, dataProfile, mt, jobs, pred, predReqs>>
  /\ UNCHANGED <<mpVars, lastDrop, authVars>>

\* the setTimeout callback: onUploadSuccess(response.session_id); the
\* session of upload i is i
UploadTimerFires(i) ==
  /\ uploads[i].state = "timer"
  /\ Render(handleFileUploadSuccess(appState, i),
            [uploads EXCEPT ![i].state = "fired"])
  /\ toast' = ToastSuccess("File uploaded successfully!")
  /\ UNCHANGED <<mpVars, lastDrop, authVars>>

(***************************************************************************)
(* DataProfile                                                             *)
(***************************************************************************)
DataProfileLoaded(s) ==
  /\ dataProfile.mounted
  /\ s \in dataProfile.reqs
  /\ dataProfile' = [dataProfile EXCEPT !.profile = s, !.isLoading = FALSE,
                                        !.reqs = @ \ {s}]
  /\ UNCHANGED <<appState, fileUpload, uploads, mt, jobs, pred, predReqs, toast>>
  /\ UNCHANGED <<mpVars, lastDrop, authVars>>

DataProfileLoadFails(s, detail) ==
  /\ dataProfile.mounted
  /\ s \in dataProfile.reqs
  /\ dataProfile' = [dataProfile EXCEPT !.isLoading = FALSE, !.reqs = @ \ {s}]
  /\ toast' = ToastError(DetailOr(detail, "Failed to load profile"))
  /\ UNCHANGED <<appState, fileUpload, uploads, mt, jobs, pred, predReqs>>
  /\ UNCHANGED <<mpVars, lastDrop, authVars>>

\* the Continue button of DataProfile: onClick={onComplete}
DataProfileContinue ==
  /\ dataProfile.mounted
  /\ ~dataProfile.isLoading
  /\ dataProfile.profile # NoSession
  /\ Render(handleProfileComplete(appState), uploads)
  /\ UNCHANGED toast
  /\ UNCHANGED <<mpVars, lastDrop, authVars>>

(***************************************************************************)
(* ModelTraining                                                           *)
(***************************************************************************)
\* loadProfile, after getProfile resolved
ModelTrainingProfileLoaded ==
  /\ mt.mounted
  /\ mt.profileReq
  /\ mt' = [mt EXCEPT !.profile = TRUE, !.profileReq = FALSE, !.isLoading = FALSE,
                      !.targetColumn = IF autoTarget # NoColumn THEN autoTarget ELSE @,
                      !.excludedColumns = autoExcluded]
  /\ UNCHANGED <<appState, fileUpload, uploads, dataProfile, jobs, pred, predReqs, toast>>
  /\ UNCHANGED <<mpVars, lastDrop, authVars>>

ModelTrainingProfileFails(detail) ==
  /\ mt.mounted
  /\ mt.profileReq
  /\ mt' = [mt EXCEPT !.profileReq = FALSE, !.isLoading = FALSE]
  /\ toast' = ToastError(DetailOr(detail, "Failed to load profile"))
  /\ UNCHANGED <<appState, fileUpload, uploads, dataProfile, jobs, pred, predReqs>>
  /\ UNCHANGED <<mpVars, lastDrop, authVars>>

\* the configuration form is rendered: profile loaded, no training result yet
ConfigurationVisible ==
  mt.mounted /\ ~mt.isLoading /\ mt.profile /\ mt.trainingResult = NoModel

setTargetColumn(c) ==
  /\ ConfigurationVisible
  /\ mt' = [mt EXCEPT !.targetColumn = c]
  /\ UNCHANGED <<appState, fileUpload, uploads, dataProfile, jobs, pred, predReqs, toast>>
  /\ UNCHANGED <<mpVars, lastDrop, authVars>>

\* the options of the Model Type select
ModelTypes == {"classification", "regression"}

\* the options of the Algorithm select
Algorithms == {"random_forest", "xgboost", "logistic_regression"}

\* onChange of the Model Type select
setModelType(t) ==
  /\ ConfigurationVisible
  /\ mt' = [mt EXCEPT !.modelType = t]
  /\ UNCHANGED <<appState, fileUpload, uploads, dataProfile, jobs, pred, predReqs, toast>>
  /\ UNCHANGED <<mpVars, lastDrop, authVars>>

\* onChange of the Algorithm select
setAlgorithm(a) ==
  /\ ConfigurationVisible
  /\ mt' = [mt EXCEPT !.algorithm = a]
  /\ UNCHANGED <<appState, fileUpload, uploads, dataProfile, jobs, pred, predReqs, toast>>
  /\ UNCHANGED <<mpVars, lastDrop, authVars>>

\* the exclude checkbox of column c; it is disabled for the target column
toggleExcluded(c) ==
  /\ ConfigurationVisible
  /\ c # mt.targetColumn
  /\ mt' = [mt EXCEPT !.excludedColumns =
                        IF c \in @ THEN @ \ {c} ELSE @ \cup {c}]
  /\ UNCHANGED <<appState, fileUpload, uploads, dataProfile, jobs, pred, predReqs, toast>>
  /\ UNCHANGED <<mpVars, lastDrop, authVars>>

TrainingRequest ==
  [target_column |-> mt.targetColumn, model_type |-> mt.modelType,
   algorithm |-> mt.algorithm, excluded_columns |-> mt.excludedColumns]

\* trainModel: one POST /train/{sessionId}; the training runs while it is open
trainModel(sessionId, request) ==
  [session |-> sessionId, request |-> request, state |-> "running",
   http |-> "open", detail |-> NoDetail, live |-> TRUE]

\* the Train Model button is disabled={!targetColumn || isTraining}
TrainButtonEnabled == mt.targetColumn # NoColumn /\ ~mt.isTraining

\* handleTrain up to its await
handleTrain ==
  /\ ConfigurationVisible
  /\ TrainButtonEnabled
  /\ Len(jobs) < MaxTrainRequests
  /\ mt' = [mt EXCEPT !.isTraining = TRUE]
  /\ jobs' = Append(jobs, trainModel(appState.sessionId, TrainingRequest))
  /\ UNCHANGED <<appState, fileUpload, uploads, dataProfile, pred, predReqs, toast>>
  /\ UNCHANGED <<mpVars, lastDrop, authVars>>

\* a handleTrain that stored a result whatever the outcome
TrainingResultAnyOutcome(outcome, r, prev) == r

\* trainingResult after the awaited request settled with `outcome`
TrainingResultAfter(outcome, r, prev) == IF outcome = "ok" THEN r ELSE prev

\* the toast handleTrain shows when the request settled
TrainToast(outcome, detail) ==
  IF outcome = "ok" THEN ToastSuccess("Model trained successfully!")
  ELSE IF outcome = "timeout" THEN ToastError(TimeoutMessage)
  ELSE ToastError(DetailOr(detail, "Training failed"))

\* a handleTrain that sent the request again after an error response
JobsAfterSettleWithRetry(r, outcome, state, detail) ==
  LET settled == [jobs EXCEPT ![r].http = outcome, ![r].state = state,
                              ![r].detail = detail]
  IN  IF outcome = "error"
        THEN Append(settled, trainModel(jobs[r].session, jobs[r].request))
        ELSE settled

\* the train requests after request r settled: no request is sent again
JobsAfterSettle(r, outcome, state, detail) ==
  [jobs EXCEPT ![r].http = outcome, ![r].state = state, ![r].detail = detail]

\* handleTrain from its await on: try / catch / finally
TrainSettles(r, outcome, detail, state) ==
  /\ jobs[r].http = "open"
  /\ jobs[r].state = "running"
  /\ jobs' = JobsAfterSettle(r, outcome, state, detail)
  /\ mt' = IF jobs[r].live
             THEN [mt EXCEPT !.trainingResult = TrainingResultAfter(outcome, r, @),
                             !.isTraining = FALSE]
             ELSE mt
  /\ toast' = TrainToast(outcome, detail)
  /\ UNCHANGED <<appState, fileUpload, uploads, dataProfile, pred, predReqs>>
  /\ UNCHANGED <<mpVars, lastDrop, authVars>>

\* the response carries the finished model: model_id, metrics, training_time
TrainSucceeds(r) == TrainSettles(r, "ok", NoDetail, "succeeded")

TrainFails(r, detail) == TrainSettles(r, "error", detail, "failed")

\* axios aborts the request after 300000 ms (ECONNABORTED); the server goes on
TrainTimesOut(r) == TrainSettles(r, "timeout", NoDetail, "running")

\* a training whose request timed out ends on the server, either way
AbandonedTrainingEnds(r, state) ==
  /\ r \in DOMAIN jobs
  /\ jobs[r].http = "timeout"
  /\ jobs[r].state = "running"
  /\ jobs' = [jobs EXCEPT ![r].state = state]
  /\ UNCHANGED <<appState, fileUpload, uploads, dataProfile, mt, pred, predReqs, toast>>
  /\ UNCHANGED <<mpVars, lastDrop, authVars>>

\* profile.schema.filter(...).map(col => col.name)
ContinueFeatureNames ==
  SelectSeq(Schema, LAMBDA c : c # mt.targetColumn /\ c \notin mt.excludedColumns)

handleContinue ==
  /\ mt.mounted
  /\ ~mt.isLoading
  /\ mt.profile
  /\ mt.trainingResult # NoModel
  /\ Render(handleTrainingComplete(appState, mt.trainingResult, ContinueFeatureNames),
            uploads)
  /\ toast' = ToastSuccess("Model trained successfully!")
  /\ UNCHANGED <<mpVars, lastDrop, authVars>>

(***************************************************************************)
(* Predictions                                                             *)
(***************************************************************************)
\* loadModelFeatures, after getModelFeatures resolved
PredictionsFeaturesLoaded ==
  /\ pred.mounted
  /\ pred.featuresReq
  /\ LET features == ServerModelFeatures(appState.modelId)
     IN  pred' = [pred EXCEPT !.modelFeatures = features,
                              !.inputData = << BlankRow(FeatureNameSet(features)) >>,
                              !.isLoadingFeatures = FALSE, !.featuresReq = FALSE]
  /\ UNCHANGED <<appState, fileUpload, uploads, dataProfile, mt, jobs, predReqs, toast>>
  /\ UNCHANGED <<mpVars, lastDrop, authVars>>

\* its catch: fall back to the featureNames prop
PredictionsFeaturesFail ==
  /\ pred.mounted
  /\ pred.featuresReq
  /\ pred' = [pred EXCEPT !.inputData = << BlankRow(Range(appState.featureNames)) >>,
                          !.isLoadingFeatures = FALSE, !.featuresReq = FALSE]
  /\ toast' = ToastError("Failed to load model features")
  /\ UNCHANGED <<appState, fileUpload, uploads, dataProfile, mt, jobs, predReqs>>
  /\ UNCHANGED <<mpVars, lastDrop, authVars>>

\* the names of the rendered fields
PredictionsFields ==
  IF Len(pred.modelFeatures) > 0 THEN FeatureNameSet(pred.modelFeatures)
  ELSE Range(appState.featureNames)

PredictionsFormVisible == pred.mounted /\ ~pred.predictionResult

PredictionsAddRow ==
  /\ PredictionsFormVisible
  /\ Len(pred.inputData) < MaxRows
  /\ pred' = [pred EXCEPT !.inputData = Append(@, BlankRow(PredictionsFields))]
  /\ UNCHANGED <<appState, fileUpload, uploads, dataProfile, mt, jobs, predReqs, toast>>
  /\ UNCHANGED <<mpVars, lastDrop, authVars>>

RemoveAt(rows, index) ==
  [i \in 1..(Len(rows) - 1) |-> IF i < index THEN rows[i] ELSE rows[i + 1]]

PredictionsRemoveRow(index) ==
  /\ PredictionsFormVisible
  /\ ~pred.isLoadingFeatures
  /\ index \in DOMAIN pred.inputData
  /\ Len(pred.inputData) > 1
  /\ pred' = [pred EXCEPT !.inputData = RemoveAt(@, index)]
  /\ UNCHANGED <<appState, fileUpload, uploads, dataProfile, mt, jobs, predReqs, toast>>
  /\ UNCHANGED <<mpVars, lastDrop, authVars>>

\* { ...row, [field]: value }
SetField(row, field, value) ==
  [k \in DOMAIN row \cup {field} |-> IF k = field THEN value ELSE row[k]]

\* what the user can enter in the field of a feature
InputValues(features, field) ==
  LET own == {features[i] : i \in {j \in DOMAIN features : features[j].name = field}}
  IN  IF \E f \in own : f.dtype = "categorical" /\ Len(f.sample_values) > 0
        THEN {EmptyValue} \cup UNION {Range(f.sample_values) : f \in own}
        ELSE {EmptyValue, <<"1">>}

PredictionsInputChange(rowIndex, field, value) ==
  /\ PredictionsFormVisible
  /\ ~pred.isLoadingFeatures
  /\ rowIndex \in DOMAIN pred.inputData
  /\ field \in PredictionsFields
  /\ value \in InputValues(pred.modelFeatures, field)
  /\ pred' = [pred EXCEPT !.inputData[rowIndex] = SetField(@, field, value)]
  /\ UNCHANGED <<appState, fileUpload, uploads, dataProfile, mt, jobs, predReqs, toast>>
  /\ UNCHANGED <<mpVars, lastDrop, authVars>>

\* inputData.some(row => Object.values(row).some(value => value === ''))
PredictionsHasEmptyFields(rows) ==
  \E i \in DOMAIN rows : \E k \in DOMAIN rows[i] : rows[i][k] = EmptyValue

makePrediction(modelId, data) ==
  [modelId |-> modelId, data |-> data, http |-> "open", detail |-> NoDetail,
   live |-> TRUE]

\* handlePredict up to its await; the button is disabled while predicting or
\* loading the features
PredictionsHandlePredict ==
  /\ PredictionsFormVisible
  /\ ~pred.isPredicting
  /\ ~pred.isLoadingFeatures
  /\ IF PredictionsHasEmptyFields(pred.inputData)
       THEN /\ toast' = ToastError("Please fill in all fields")
            /\ UNCHANGED <<pred, predReqs>>
       ELSE /\ Len(predReqs) < MaxPredictRequests
            /\ pred' = [pred EXCEPT !.isPredicting = TRUE]
            /\ predReqs' = Append(predReqs, makePrediction(appState.modelId, pred.inputData))
            /\ UNCHANGED toast
  /\ UNCHANGED <<appState, fileUpload, uploads, dataProfile, mt, jobs>>
  /\ UNCHANGED <<mpVars, lastDrop, authVars>>

PredictToast(outcome, detail) ==
  IF outcome = "ok" THEN ToastSuccess("Predictions generated successfully!")
  ELSE ToastError(DetailOr(detail, "Prediction failed"))

\* the predict requests after request q settled: no request is sent again
PredReqsAfterSettle(q, outcome, detail) ==
  [predReqs EXCEPT ![q].http = outcome, ![q].detail = detail]

\* handlePredict from its await on
PredictSettles(q, outcome, detail) ==
  /\ q \in DOMAIN predReqs
  /\ predReqs[q].http = "open"
  /\ predReqs' = PredReqsAfterSettle(q, outcome, detail)
  /\ pred' = IF predReqs[q].live
               THEN [pred EXCEPT !.predictionResult = (outcome = "ok") \/ @,
                                 !.isPredicting = FALSE]
               ELSE pred
  /\ toast' = PredictToast(outcome, detail)
  /\ UNCHANGED <<appState, fileUpload, uploads, dataProfile, mt, jobs>>
  /\ UNCHANGED <<mpVars, lastDrop, authVars>>

PredictSucceeds(q) == PredictSettles(q, "ok", NoDetail)

PredictFails(q, detail) == PredictSettles(q, "error", detail)

\* Make More Predictions: setPredictionResult(null)
PredictionsNewPrediction ==
  /\ pred.mounted
  /\ pred.predictionResult
  /\ pred' = [pred EXCEPT !.predictionResult = FALSE]
  /\ UNCHANGED <<appState, fileUpload, uploads, dataProfile, mt, jobs, predReqs, toast>>
  /\ UNCHANGED <<mpVars, lastDrop, authVars>>

\* View Summary: handleContinue calls onComplete
PredictionsContinue ==
  /\ pred.mounted
  /\ pred.predictionResult
  /\ Render(handlePredictionComplete(appState), uploads)
  /\ UNCHANGED toast
  /\ UNCHANGED <<mpVars, lastDrop, authVars>>

\* the Summary step's onComplete
SummaryContinue ==
  /\ appState.currentStep = "summary"
  /\ appState.sessionId # NoSession
  /\ Render(handleSummaryComplete(appState), uploads)
  /\ UNCHANGED toast
  /\ UNCHANGED <<mpVars, lastDrop, authVars>>

(***************************************************************************)
(* ModelPredictions                                                        *)
(***************************************************************************)
FeatureN == [name |-> <<"n">>, dtype |-> "numerical", sample_values |-> <<>>]

FeatureA ==
  [name |-> <<"a">>, dtype |-> "categorical",
   sample_values |-> << <<"x">>, <<"y">> >>]

FeatureB ==
  [name |-> <<"b">>, dtype |-> "categorical",
   sample_values |-> << <<"p", " ", "q">>, <<"r", " ", "s">> >>]

FeatureBpq ==
  [name |-> <<"b", "_", "p", "_", "q">>, dtype |-> "numerical", sample_values |-> <<>>]

\* the models getUserModels lists and the features getModelFeatures returns
UserModels == {1, 2}

CatalogFeatures(m) == IF m = 1 THEN <<FeatureN, FeatureA>> ELSE <<FeatureB, FeatureBpq>>

Zero == <<"0">>

One == <<"1">>

\* `${feature.name}_${category}`
OneHotColumn(name, category) == name \o <<"_">> \o category

IsGrouped(f) == f.dtype = "categorical" /\ Len(f.sample_values) > 0

\* the row loadModelFeatures and handleAddRow build from a feature list
InitialRow(features) ==
  LET hot(f) == {OneHotColumn(f.name, c) : c \in Range(f.sample_values)}
      cats == {f \in Range(features) : f.dtype = "categorical"}
      plain == {f.name : f \in Range(features) \ cats}
      hots == UNION {hot(f) : f \in cats}
      \* a later assignment to the same key wins
      lastIsPlain(k) ==
        LET at == {i \in DOMAIN features :
                     \/ features[i].dtype # "categorical" /\ features[i].name = k
                     \/ features[i].dtype = "categorical" /\ k \in hot(features[i])}
            last == CHOOSE i \in at : \A j \in at : j <= i
        IN  features[last].dtype # "categorical"
  IN  [k \in plain \cup hots |-> IF lastIsPlain(k) THEN EmptyValue ELSE Zero]

\* modelFeatures.find(f => f.name === field): its index, 0 when absent
FindFeature(features, field) ==
  IF \E i \in DOMAIN features : features[i].name = field
    THEN CHOOSE i \in DOMAIN features :
           /\ features[i].name = field
           /\ \A j \in 1..(i - 1) : features[j].name # field
    ELSE 0

\* the features whose name starts with baseColumn + '_'
RelatedNames(features, baseColumn) ==
  {features[i].name : i \in {j \in DOMAIN features :
                               StartsWith(features[j].name, baseColumn \o <<"_">>)}}

\* "Clear all related one-hot encoded columns first"
ClearRelated(row, features, baseColumn) ==
  LET related == RelatedNames(features, baseColumn)
  IN  [k \in DOMAIN row \cup related |-> IF k \in related THEN Zero ELSE row[k]]

\* the row handleInputChange stores for (field, value)
InputChangeRow(row, features, field, value) ==
  LET i == FindFeature(features, field)
  IN  IF i # 0 /\ IsGrouped(features[i])
        THEN LET cleared == ClearRelated(row, features, features[i].name)
             IN  IF value # EmptyValue
                   THEN SetField(cleared,
                                 OneHotColumn(features[i].name, ReplaceAll(value, " ", "_")),
                                 One)
                   ELSE cleared
        ELSE SetField(row, field, value)

\* renderInputField: the category the select is given as its value
SelectedValue(row, features, baseColumn) ==
  LET hits == {i \in DOMAIN features :
                 /\ StartsWith(features[i].name, baseColumn \o <<"_">>)
                 /\ features[i].name \in DOMAIN row
                 /\ row[features[i].name] = One}
  IN  IF hits = {} THEN EmptyValue
      ELSE LET last == CHOOSE i \in hits : \A j \in hits : j <= i
               name == features[last].name
           IN  ReplaceAll(SubSeq(name, Len(baseColumn) + 2, Len(name)), "_", " ")

\* the option the select shows: the placeholder unless its value is an option
DisplayedOption(row, f, features) ==
  LET v == SelectedValue(row, features, f.name)
  IN  IF v \in Range(f.sample_values) THEN v ELSE EmptyValue

\* the select's onChange with the placeholder: every iteration copies the
\* same inputData, so the last setInputData wins
ClearLoopRow(row, features, baseColumn) ==
  LET hits == {i \in DOMAIN features :
                 StartsWith(features[i].name, baseColumn \o <<"_">>)}
  IN  IF hits = {} THEN row
      ELSE SetField(row, features[CHOOSE i \in hits : \A j \in hits : j <= i].name, Zero)

MPUnmounted ==
  [mounted |-> FALSE, isLoading |-> FALSE, models |-> {}, selectedModel |-> NoModel,
   modelFeatures |-> <<>>, isLoadingFeatures |-> FALSE, isPredicting |-> FALSE,
   inputData |-> <<>>, predictionResult |-> FALSE]

\* useState initial values; the mount effect calls loadUserModels
MPMount ==
  [mounted |-> TRUE, isLoading |-> TRUE, models |-> {}, selectedModel |-> NoModel,
   modelFeatures |-> <<>>, isLoadingFeatures |-> FALSE, isPredicting |-> FALSE,
   inputData |-> << <<>> >>, predictionResult |-> FALSE]

NoRequest == [modelId |-> NoModel, data |-> <<>>]

\* loadUserModels, after getUserModels settled
MPModelsLoaded ==
  /\ mp.mounted
  /\ mp.isLoading
  /\ mp' = [mp EXCEPT !.models = UserModels, !.isLoading = FALSE]
  /\ UNCHANGED <<dashboardVars, lastDrop, authVars, mpFeatureReqs, mpPredReq, toast>>

MPModelsFail ==
  /\ mp.mounted
  /\ mp.isLoading
  /\ mp' = [mp EXCEPT !.isLoading = FALSE]
  /\ toast' = ToastError("Failed to load your models")
  /\ UNCHANGED <<dashboardVars, lastDrop, authVars, mpFeatureReqs, mpPredReq>>

\* handleModelSelect and loadModelFeatures up to its await
MPhandleModelSelect(m) ==
  /\ mp.mounted
  /\ ~mp.isLoading
  /\ m \in mp.models
  /\ Len(mpFeatureReqs) < MaxFeatureRequests
  /\ mp' = [mp EXCEPT !.selectedModel = m, !.predictionResult = FALSE,
                      !.modelFeatures = <<>>, !.inputData = << <<>> >>,
                      !.isLoadingFeatures = TRUE]
  /\ mpFeatureReqs' = Append(mpFeatureReqs, m)
  /\ UNCHANGED <<dashboardVars, lastDrop, authVars, mpPredReq, toast>>

\* loadModelFeatures after request i resolved
MPFeaturesLoaded(i) ==
  /\ i \in DOMAIN mpFeatureReqs
  /\ LET features == CatalogFeatures(mpFeatureReqs[i])
     IN  mp' = [mp EXCEPT !.modelFeatures = features,
                          !.inputData = << InitialRow(features) >>,
                          !.isLoadingFeatures = FALSE]
  /\ mpFeatureReqs' = RemoveAt(mpFeatureReqs, i)
  /\ UNCHANGED <<dashboardVars, lastDrop, authVars, mpPredReq, toast>>

MPFeaturesFail(i) ==
  /\ i \in DOMAIN mpFeatureReqs
  /\ mp' = [mp EXCEPT !.isLoadingFeatures = FALSE]
  /\ mpFeatureReqs' = RemoveAt(mpFeatureReqs, i)
  /\ toast' = ToastError("Failed to load model features")
  /\ UNCHANGED <<dashboardVars, lastDrop, authVars, mpPredReq>>

MPFormVisible == mp.mounted /\ mp.selectedModel # NoModel /\ ~mp.predictionResult

MPRowsVisible == MPFormVisible /\ ~mp.isLoadingFeatures /\ Len(mp.modelFeatures) > 0

MPhandleAddRow ==
  /\ MPFormVisible
  /\ Len(mp.inputData) < MaxRows
  /\ mp' = [mp EXCEPT !.inputData =
                        Append(@, IF Len(mp.modelFeatures) > 0
                                    THEN InitialRow(mp.modelFeatures) ELSE <<>>)]
  /\ UNCHANGED <<dashboardVars, lastDrop, authVars, mpFeatureReqs, mpPredReq, toast>>

MPhandleRemoveRow(index) ==
  /\ MPRowsVisible
  /\ index \in DOMAIN mp.inputData
  /\ Len(mp.inputData) > 1
  /\ mp' = [mp EXCEPT !.inputData = RemoveAt(@, index)]
  /\ UNCHANGED <<dashboardVars, lastDrop, authVars, mpFeatureReqs, mpPredReq, toast>>

\* the onChange of the select rendered for a grouped categorical feature
MPSelectChange(rowIndex, fi, newValue) ==
  /\ MPRowsVisible
  /\ rowIndex \in DOMAIN mp.inputData
  /\ fi \in DOMAIN mp.modelFeatures
  /\ LET f == mp.modelFeatures[fi]
         row == mp.inputData[rowIndex]
     IN  /\ IsGrouped(f)
         /\ newValue \in {EmptyValue} \cup Range(f.sample_values)
         /\ newValue # DisplayedOption(row, f, mp.modelFeatures)
         /\ mp' = [mp EXCEPT !.inputData[rowIndex] =
                     IF newValue # EmptyValue
                       THEN InputChangeRow(row, mp.modelFeatures, f.name, newValue)
                       ELSE ClearLoopRow(row, mp.modelFeatures, f.name)]
  /\ UNCHANGED <<dashboardVars, lastDrop, authVars, mpFeatureReqs, mpPredReq, toast>>

\* the onChange of the input rendered for any other feature
MPInputChange(rowIndex, fi, value) ==
  /\ MPRowsVisible
  /\ rowIndex \in DOMAIN mp.inputData
  /\ fi \in DOMAIN mp.modelFeatures
  /\ ~IsGrouped(mp.modelFeatures[fi])
  /\ mp' = [mp EXCEPT !.inputData[rowIndex] =
              InputChangeRow(@, mp.modelFeatures, mp.modelFeatures[fi].name, value)]
  /\ UNCHANGED <<dashboardVars, lastDrop, authVars, mpFeatureReqs, mpPredReq, toast>>

\* inputData.some(row => Object.keys(row).length === 0 ||
\*                       Object.values(row).some(value => value === ''))
MPHasEmptyFields(rows) ==
  \E i \in DOMAIN rows :
    DOMAIN rows[i] = {} \/ \E k \in DOMAIN rows[i] : rows[i][k] = EmptyValue

\* handlePredict up to its await; the button is
\* disabled={isPredicting || modelFeatures.length === 0}
MPhandlePredict ==
  /\ MPFormVisible
  /\ ~mp.isPredicting
  /\ Len(mp.modelFeatures) > 0
  /\ IF MPHasEmptyFields(mp.inputData)
       THEN /\ toast' = ToastError("Please fill in all fields")
            /\ UNCHANGED <<mp, mpPredReq>>
       ELSE /\ mp' = [mp EXCEPT !.isPredicting = TRUE]
            /\ mpPredReq' = [modelId |-> mp.selectedModel, data |-> mp.inputData]
            /\ UNCHANGED toast
  /\ UNCHANGED <<dashboardVars, lastDrop, authVars, mpFeatureReqs>>

\* handlePredict from its await on
MPPredictSettles(outcome, detail) ==
  /\ mpPredReq # NoRequest
  /\ mpPredReq' = NoRequest
  /\ mp' = [mp EXCEPT !.predictionResult = (outcome = "ok") \/ @,
                      !.isPredicting = FALSE]
  /\ toast' = PredictToast(outcome, detail)
  /\ UNCHANGED <<dashboardVars, lastDrop, authVars, mpFeatureReqs>>

\* New Prediction: setPredictionResult(null)
MPNewPrediction ==
  /\ mp.mounted
  /\ mp.selectedModel # NoModel
  /\ mp.predictionResult
  /\ mp' = [mp EXCEPT !.predictionResult = FALSE]
  /\ UNCHANGED <<dashboardVars, lastDrop, authVars, mpFeatureReqs, mpPredReq, toast>>

(***************************************************************************)
(* The auth client (authApi), the auth service and AuthContext.  The       *)
(* operators below transform a record S of the state they touch: storage   *)
(* (localStorage), ctx (AuthProvider's user and isLoading), reqs (the       *)
(* requests sent), location (window.location) and toast.                   *)
(***************************************************************************)
NoToken == <<>>

\* the tokens stored by an earlier visit
StoredToken == <<0>>

\* the access_token and refresh_token in the response to request q
Token(q) == <<q>>

NoUser == "null"

ServerProfile == "profile"

ClearedStorage ==
  [access_token |-> NoToken, refresh_token |-> NoToken, user_profile |-> NoUser]

\* localStorage when the page is opened
InitialStorages ==
  { ClearedStorage,
    [access_token |-> StoredToken, refresh_token |-> StoredToken, user_profile |-> ServerProfile],
    [access_token |-> StoredToken, refresh_token |-> StoredToken, user_profile |-> NoUser],
    [access_token |-> StoredToken, refresh_token |-> NoToken, user_profile |-> ServerProfile] }

\* the Dashboard is rendered for a signed-in user (ProtectedRoute)
SignedIn ==
  /\ storage = [access_token |-> StoredToken, refresh_token |-> StoredToken,
                user_profile |-> ServerProfile]
  /\ authCtx = [user |-> ServerProfile, isLoading |-> FALSE]
  /\ authReqs = <<>>
  /\ location = [href |-> "/", loading |-> FALSE]

AuthState ==
  [storage |-> storage, ctx |-> authCtx, reqs |-> authReqs, location |-> location,
   toast |-> toast]

\* a request leaves through the request interceptor, which attaches the
\* access_token stored at that moment
AuthSend(S, client, kind, flow, parent) ==
  [S EXCEPT !.reqs = Append(@, [client |-> client, kind |-> kind, flow |-> flow,
                                parent |-> parent, retry |-> FALSE, sends |-> 1,
                                auth |-> S.storage.access_token, status |-> 0,
                                state |-> "open", flowResult |-> "pending"])]

\* isAuthenticated() of the auth service
isAuthenticated(S) == S.storage.access_token # NoToken

\* AuthProvider mounts: useState initial values, then initializeAuth up to
\* its first await
initializeAuth(S) ==
  LET ctx0 == [user |-> NoUser, isLoading |-> TRUE]
  IN  IF isAuthenticated(S)
        THEN AuthSend([S EXCEPT !.ctx = [ctx0 EXCEPT !.user = S.storage.user_profile]],
                      "authApi", "profile", "init", 0)
        ELSE [S EXCEPT !.ctx = [ctx0 EXCEPT !.isLoading = FALSE]]

\* a logout that cleared the tokens only when the API call succeeded
ClearIfLogoutSucceeded(S, ok) ==
  IF ok THEN [S EXCEPT !.storage = ClearedStorage] ELSE S

\* logout of the auth service after its await: finally
logoutFinally(S, ok) == [S EXCEPT !.storage = ClearedStorage]

\* the message of the Error the auth service throws
ErrorMessage == "Request failed with status code 401"

\* the catch and finally of AuthProvider.login / register
loginCatch(S, q) ==
  [S EXCEPT !.ctx.isLoading = FALSE, !.toast = ToastError(ErrorMessage),
            !.reqs[q].flowResult = "rejected"]

\* a failed profile fetch that kept the user of the cached profile
ProfileFailedKeepsUser(S, q) ==
  LET flow == S.reqs[q].flow
  IN  IF flow = "init" THEN [S EXCEPT !.ctx.isLoading = FALSE]
      ELSE IF flow = "refreshUser" THEN S
      ELSE loginCatch(S, q)

\* what the awaiting function does when getProfile threw
ProfileFailed(S, q) ==
  LET flow == S.reqs[q].flow
  IN  IF flow = "init" THEN AuthSend(S, "authApi", "logout", "init", 0)
      ELSE IF flow = "refreshUser"
        THEN AuthSend([S EXCEPT !.ctx.isLoading = TRUE], "authApi", "logout", "refreshUser", 0)
      ELSE loginCatch(S, q)

\* the function awaiting root request q continues: the auth service function,
\* then the AuthProvider function that called it
AfterSettle(S, q, ok) ==
  LET r == S.reqs[q]
  IN  CASE r.kind = "logout" ->
             LET S1 == [logoutFinally(S, ok) EXCEPT !.reqs[q].flowResult = "resolved"]
             IN  IF r.flow = "none" THEN S1
                 ELSE IF r.flow = "init"
                   THEN [S1 EXCEPT !.ctx = [user |-> NoUser, isLoading |-> FALSE]]
                 ELSE [S1 EXCEPT !.ctx = [user |-> NoUser, isLoading |-> FALSE],
                                 !.toast = ToastSuccess("Logged out successfully")]
        [] r.kind \in {"login", "register"} ->
             IF ok
               THEN AuthSend([S EXCEPT !.storage.access_token = Token(q),
                                       !.storage.refresh_token = Token(q)],
                             "authApi", "profile", r.flow, 0)
               ELSE loginCatch(S, q)
        [] r.kind = "profile" ->
             IF ok
               THEN LET S1 == [S EXCEPT !.storage.user_profile = ServerProfile,
                                        !.ctx.user = ServerProfile,
                                        !.reqs[q].flowResult = "resolved"]
                    IN  IF r.flow = "init" THEN [S1 EXCEPT !.ctx.isLoading = FALSE]
                        ELSE IF r.flow = "refreshUser" THEN S1
                        ELSE [S1 EXCEPT !.ctx.isLoading = FALSE,
                                        !.toast = ToastSuccess("Login successful!"),
                                        !.location = [href |-> "/", loading |-> TRUE]]
               ELSE ProfileFailed(S, q)
        [] OTHER -> [S EXCEPT !.reqs[q].flowResult = IF ok THEN "resolved" ELSE "rejected"]

RECURSIVE AuthReject(_, _)
\* request q is rejected; for a refresh request that is the interceptor's
\* catch: logout() is called, not awaited, and the error goes to the request
\* that waited for the refresh
AuthReject(S, q) ==
  LET S1 == [S EXCEPT !.reqs[q].state = "failed"]
  IN  IF S.reqs[q].kind = "refresh"
        THEN AuthReject(AuthSend(S1, "authApi", "logout", "none", 0), S.reqs[q].parent)
        ELSE AfterSettle(S1, q, FALSE)

\* request q is fulfilled; for a refresh request the interceptor stores the
\* new tokens and sends the original request again with the new access_token
AuthResolve(S, q) ==
  LET S1 == [S EXCEPT !.reqs[q].state = "ok"]
      p == S.reqs[q].parent
  IN  IF S.reqs[q].kind = "refresh"
        THEN [S1 EXCEPT !.storage.access_token = Token(q),
                        !.storage.refresh_token = Token(q),
                        !.reqs[p].state = "open", !.reqs[p].auth = Token(q),
                        !.reqs[p].status = 0, !.reqs[p].sends = @ + 1]
        ELSE AfterSettle(S1, q, TRUE)

\* an interceptor that does not mark the request as retried
UnmarkedRetry(req) == req

\* originalRequest._retry = true
MarkRetry(req) == [req EXCEPT !.retry = TRUE]

\* the response interceptor of authApi
authApiResponse(S, q, status) ==
  IF status = 200 THEN AuthResolve(S, q)
  ELSE IF status = 401 /\ ~S.reqs[q].retry
    THEN LET S1 == [S EXCEPT !.reqs[q] = MarkRetry(@)]
         IN  IF S1.storage.refresh_token # NoToken
               THEN AuthSend([S1 EXCEPT !.reqs[q].state = "waiting"],
                             "authApi", "refresh", "none", q)
               ELSE AuthReject(S1, q)
  ELSE AuthReject(S, q)

\* an interceptor that left the stored tokens in place
UnauthorizedKeepsTokens(S) == [S EXCEPT !.location = [href |-> "/auth", loading |-> TRUE]]

\* the 401 branch of the response interceptor of the data API client
apiUnauthorized(S) ==
  [S EXCEPT !.storage = ClearedStorage, !.location = [href |-> "/auth", loading |-> TRUE]]

\* the response interceptor of the data API client (api)
apiResponse(S, q, status) ==
  IF status = 200 THEN AfterSettle([S EXCEPT !.reqs[q].state = "ok"], q, TRUE)
  ELSE AfterSettle([(IF status = 401 THEN apiUnauthorized(S) ELSE S)
                      EXCEPT !.reqs[q].state = "failed"], q, FALSE)

\* the page is loaded anew: the requests of the old page are abandoned and
\* AuthProvider mounts again
pageLoad(S) ==
  initializeAuth([S EXCEPT !.location.loading = FALSE,
                           !.reqs = [i \in DOMAIN S.reqs |->
                                       IF S.reqs[i].state \in {"open", "waiting"}
                                         THEN [S.reqs[i] EXCEPT !.state = "abandoned"]
                                         ELSE S.reqs[i]]])

\* the step to state S of the auth client
AuthStep(S) ==
  /\ Len(S.reqs) <= MaxAuthRequests
  /\ storage' = S.storage
  /\ authCtx' = S.ctx
  /\ authReqs' = S.reqs
  /\ location' = S.location
  /\ toast' = S.toast
  /\ UNCHANGED <<dashboardVars, mpVars, lastDrop>>

\* AuthProvider.login and AuthProvider.register up to their first await
ctxLogin(kind) ==
  AuthStep(AuthSend([AuthState EXCEPT !.ctx.isLoading = TRUE], "authApi", kind, kind, 0))

\* AuthProvider.logout up to its await
ctxLogout ==
  AuthStep(AuthSend([AuthState EXCEPT !.ctx.isLoading = TRUE], "authApi", "logout", "logout", 0))

\* AuthProvider.refreshUser up to its await
refreshUser ==
  /\ isAuthenticated(AuthState)
  /\ AuthStep(AuthSend(AuthState, "authApi", "profile", "refreshUser", 0))

\* a request of the data API client: upload, profile, train, predict, ...
dataRequest == AuthStep(AuthSend(AuthState, "api", "data", "none", 0))

\* the response to request q arrives with an HTTP status
AuthResponds(q, status) ==
  /\ authReqs[q].state = "open"
  /\ LET S == [AuthState EXCEPT !.reqs[q].status = status]
     IN  AuthStep(IF authReqs[q].client = "api"
                    THEN apiResponse(S, q, status)
                    ELSE authApiResponse(S, q, status))

\* the browser follows an assignment to window.location.href
PageLoads ==
  /\ location.loading
  /\ AuthStep(pageLoad(AuthState))

(***************************************************************************)
(* The Dashboard workflow, from a freshly mounted Dashboard. The training  *)
(* configuration is the one loadProfile selects.                           *)
(***************************************************************************)
Init ==
  /\ appState = DashboardInit
  /\ fileUpload = FileUploadInit
  /\ uploads = <<>>
  /\ dataProfile = DataProfileUnmounted
  /\ mt = ModelTrainingUnmounted
  /\ jobs = <<>>
  /\ pred = PredictionsUnmounted
  /\ predReqs = <<>>
  /\ mp = MPUnmounted
  /\ mpFeatureReqs = <<>>
  /\ mpPredReq = NoRequest
  /\ toast = NoToast
  /\ lastDrop = <<>>
  /\ SignedIn

TrainingStep ==
  \/ ModelTrainingProfileLoaded
  \/ \E d \in Details : ModelTrainingProfileFails(d)
  \/ handleTrain
  \/ \E r \in DOMAIN jobs : TrainSucceeds(r)
  \/ \E r \in DOMAIN jobs, d \in Details : TrainFails(r, d)
  \/ \E r \in DOMAIN jobs : TrainTimesOut(r)
  \/ \E r \in DOMAIN jobs, s \in {"succeeded", "failed"} : AbandonedTrainingEnds(r, s)
  \/ handleContinue

PredictionStep ==
  \/ PredictionsFeaturesLoaded
  \/ PredictionsFeaturesFail
  \/ PredictionsAddRow
  \/ \E i \in 1..MaxRows : PredictionsRemoveRow(i)
  \/ \E i \in 1..MaxRows, f \in SchemaNames, v \in {EmptyValue, <<"1">>, <<"y">>, <<"n">>} :
       PredictionsInputChange(i, f, v)
  \/ PredictionsHandlePredict
  \/ \E q \in DOMAIN predReqs : PredictSucceeds(q)
  \/ \E q \in DOMAIN predReqs, d \in Details : PredictFails(q, d)
  \/ PredictionsNewPrediction
  \/ PredictionsContinue
  \/ SummaryContinue

Next ==
  \/ resetApp
  \/ \E f \in WorkflowFiles : DropFile(f)
  \/ \E i \in DOMAIN uploads : ProgressTick(i)
  \/ \E i \in DOMAIN uploads : UploadSucceeds(i)
  \/ \E i \in DOMAIN uploads, d \in Details : UploadFails(i, d)
  \/ \E i \in DOMAIN uploads : UploadTimerFires(i)
  \/ \E s \in 1..MaxUploads : DataProfileLoaded(s)
  \/ \E s \in 1..MaxUploads, d \in Details : DataProfileLoadFails(s, d)
  \/ DataProfileContinue
  \/ TrainingStep
  \/ PredictionStep

Spec == Init /\ [][Next]_vars

(***************************************************************************)
(* FileUpload alone, under a freshly mounted Dashboard: every kind of      *)
(* dropped file.                                                           *)
(***************************************************************************)
NextUpload ==
  \/ \E f \in DroppedFiles : DropFile(f)
  \/ \E i \in DOMAIN uploads : ProgressTick(i)
  \/ \E i \in DOMAIN uploads : UploadSucceeds(i)
  \/ \E i \in DOMAIN uploads, d \in Details : UploadFails(i, d)
  \/ \E i \in DOMAIN uploads : UploadTimerFires(i)
  \/ resetApp

SpecUpload == Init /\ [][NextUpload]_vars

(***************************************************************************)
(* ModelTraining alone, mounted by the Dashboard at step 'train' for the   *)
(* session of the first upload; the user edits the configuration freely.   *)
(***************************************************************************)
InitTraining ==
  /\ appState = [DashboardInit EXCEPT !.sessionId = 1, !.currentStep = "train"]
  /\ fileUpload = FileUploadInit
  /\ uploads = << FirstUpload >>
  /\ dataProfile = DataProfileUnmounted
  /\ mt = ModelTrainingMount
  /\ jobs = <<>>
  /\ pred = PredictionsUnmounted
  /\ predReqs = <<>>
  /\ mp = MPUnmounted
  /\ mpFeatureReqs = <<>>
  /\ mpPredReq = NoRequest
  /\ toast = NoToast
  /\ lastDrop = <<>>
  /\ SignedIn

NextTraining ==
  \/ TrainingStep
  \/ \E c \in SchemaNames \cup {NoColumn} : setTargetColumn(c)
  \/ \E c \in SchemaNames : toggleExcluded(c)

SpecTraining == InitTraining /\ [][NextTraining]_vars

(***************************************************************************)
(* ModelTraining with its Model Type and Algorithm selectors.               *)
(***************************************************************************)
NextConfiguration ==
  \/ ModelTrainingProfileLoaded
  \/ \E c \in SchemaNames \cup {NoColumn} : setTargetColumn(c)
  \/ \E t \in ModelTypes : setModelType(t)
  \/ \E a \in Algorithms : setAlgorithm(a)
  \/ handleTrain
  \/ \E r \in DOMAIN jobs : TrainSucceeds(r)
  \/ \E r \in DOMAIN jobs, d \in Details : TrainFails(r, d)

SpecConfiguration == InitTraining /\ [][NextConfiguration]_vars

(***************************************************************************)
(* Training and prediction from step 'train' on, with the configuration    *)
(* loadProfile selects.                                                    *)
(***************************************************************************)
NextPredict ==
  \/ TrainingStep
  \/ PredictionStep

SpecPredict == InitTraining /\ [][NextPredict]_vars

(***************************************************************************)
(* The ModelPredictions page, freshly mounted.                             *)
(***************************************************************************)
InitModelPredictions ==
  /\ appState = DashboardInit
  /\ fileUpload = FileUploadInit
  /\ uploads = <<>>
  /\ dataProfile = DataProfileUnmounted
  /\ mt = ModelTrainingUnmounted
  /\ jobs = <<>>
  /\ pred = PredictionsUnmounted
  /\ predReqs = <<>>
  /\ mp = MPMount
  /\ mpFeatureReqs = <<>>
  /\ mpPredReq = NoRequest
  /\ toast = NoToast
  /\ lastDrop = <<>>
  /\ SignedIn

InputCells == {EmptyValue, <<"x">>, <<"y">>, <<"p", " ", "q">>, <<"r", " ", "s">>}

NextModelPredictions ==
  \/ MPModelsLoaded
  \/ MPModelsFail
  \/ \E m \in UserModels : MPhandleModelSelect(m)
  \/ \E i \in 1..MaxFeatureRequests : MPFeaturesLoaded(i)
  \/ \E i \in 1..MaxFeatureRequests : MPFeaturesFail(i)
  \/ MPhandleAddRow
  \/ \E i \in 1..MaxRows : MPhandleRemoveRow(i)
  \/ \E i \in 1..MaxRows, fi \in 1..2, v \in InputCells : MPSelectChange(i, fi, v)
  \/ \E i \in 1..MaxRows, fi \in 1..2, v \in {EmptyValue, One} : MPInputChange(i, fi, v)
  \/ MPhandlePredict
  \/ \E d \in Details : MPPredictSettles("ok", d)
  \/ \E d \in Details : MPPredictSettles("error", d)
  \/ MPNewPrediction

SpecModelPredictions == InitModelPredictions /\ [][NextModelPredictions]_vars

(***************************************************************************)
(* The auth client: the page is opened with some localStorage, AuthProvider *)
(* mounts, and the user and the server act in any order.                   *)
(***************************************************************************)
InitAuth ==
  /\ appState = DashboardInit
  /\ fileUpload = FileUploadInit
  /\ uploads = <<>>
  /\ dataProfile = DataProfileUnmounted
  /\ mt = ModelTrainingUnmounted
  /\ jobs = <<>>
  /\ pred = PredictionsUnmounted
  /\ predReqs = <<>>
  /\ mp = MPUnmounted
  /\ mpFeatureReqs = <<>>
  /\ mpPredReq = NoRequest
  /\ lastDrop = <<>>
  /\ \E st \in InitialStorages :
       LET S == initializeAuth([storage |-> st, ctx |-> [user |-> NoUser, isLoading |-> TRUE],
                                reqs |-> <<>>, location |-> [href |-> "/", loading |-> FALSE],
                                toast |-> NoToast])
       IN  /\ storage = S.storage /\ authCtx = S.ctx /\ authReqs = S.reqs
           /\ location = S.location /\ toast = S.toast

NextAuth ==
  \/ \E kind \in {"login", "register"} : ctxLogin(kind)
  \/ ctxLogout
  \/ refreshUser
  \/ dataRequest
  \/ \E q \in DOMAIN authReqs, status \in {200, 401, 500} : AuthResponds(q, status)
  \/ PageLoads

SpecAuth == InitAuth /\ [][NextAuth]_vars

(***************************************************************************)
(* Properties                                                              *)
(***************************************************************************)
\* toast.error reports a failure to the user
ReportsFailure(t) == t.level = "error"

\* the messages that tell the user to try again
AdvisesRetry(t) == t.msg \in {TimeoutMessage}

\* C1: when the client-side timeout of a train request fires, the client
\* does not report that training failed or should be tried again.
C1_TimeoutIsUnknownOutcome ==
  [][\A r \in DOMAIN jobs :
       (jobs[r].http = "open" /\ jobs'[r].http = "timeout")
         => ~ReportsFailure(toast') /\ ~AdvisesRetry(toast')]_vars

\* C2: for every session at most one training job runs at a time: no train
\* request is sent while an earlier training of the session may still run.
C2_OneTrainingPerSession ==
  \A r1, r2 \in DOMAIN jobs :
    (r1 # r2 /\ jobs[r1].session = jobs[r2].session)
      => ~(jobs[r1].state = "running" /\ jobs[r2].state = "running")

\* model m was returned by a train request that completed successfully
ReturnedByTraining(m) ==
  m \in DOMAIN jobs /\ jobs[m].http = "ok" /\ jobs[m].state = "succeeded"

\* C3: a model_id is usable in the client (trainingResult, appState.modelId,
\* the model of a predict request) only if a train request that completed
\* successfully returned it.
C3_OnlyTrainedModelsUsable ==
  /\ mt.trainingResult # NoModel => ReturnedByTraining(mt.trainingResult)
  /\ appState.modelId # NoModel => ReturnedByTraining(appState.modelId)
  /\ \A q \in DOMAIN predReqs : ReturnedByTraining(predReqs[q].modelId)

\* a training failed or timed out, and a model is in use for a prediction
C3_Witness ==
  /\ \E r \in DOMAIN jobs : jobs[r].http \in {"error", "timeout"}
  /\ appState.modelId # NoModel
  /\ \E q \in DOMAIN predReqs : predReqs[q].modelId = appState.modelId

\* the encoded columns of a feature list: feature.name for a non-categorical
\* feature, `${feature.name}_${category}` for each category of a categorical one
EncodedColumns(features) ==
  {f.name : f \in {g \in Range(features) : g.dtype # "categorical"}}
    \cup UNION {{OneHotColumn(f.name, c) : c \in Range(f.sample_values)} :
                 f \in {g \in Range(features) : g.dtype = "categorical"}}

\* C4: every record ModelPredictions sends to predict has exactly the keys
\* initialised from the model's feature list.
C4_NoNewEncodedColumns ==
  [][(mpPredReq = NoRequest /\ mpPredReq' # NoRequest)
       => \A i \in DOMAIN mpPredReq'.data :
            DOMAIN mpPredReq'.data[i] = EncodedColumns(mp.modelFeatures)]_vars

\* C5: in every input row of ModelPredictions, at most one one-hot column
\* of a categorical feature holds '1' and its other columns hold '0'.
C5_SingleOneHot ==
  \A i \in DOMAIN mp.inputData : \A f \in Range(mp.modelFeatures) :
    IsGrouped(f) =>
      LET row == mp.inputData[i]
          cols == {OneHotColumn(f.name, c) : c \in Range(f.sample_values)} \cap DOMAIN row
      IN  /\ Cardinality({k \in cols : row[k] = One}) <= 1
          /\ \A k \in cols : row[k] \in {Zero, One}

\* the user supplied a value for feature f in a row
UserSupplied(row, f) ==
  IF IsGrouped(f)
    THEN \E c \in Range(f.sample_values) :
           /\ OneHotColumn(f.name, c) \in DOMAIN row
           /\ row[OneHotColumn(f.name, c)] = One
    ELSE f.name \in DOMAIN row /\ row[f.name] # EmptyValue

\* C6: a predict request is sent only if, in every record, every feature of
\* the model (numerical and categorical) has a user-supplied value.
C6_MissingFeatureRejected ==
  [][(mpPredReq = NoRequest /\ mpPredReq' # NoRequest)
       => \A i \in DOMAIN mpPredReq'.data : \A f \in Range(mp.modelFeatures) :
            UserSupplied(mpPredReq'.data[i], f)]_vars

\* C7: the featureNames handed to the prediction step contain neither the
\* target_column nor an excluded_columns entry of the train request that
\* produced the model, and contain every other schema column.
C7_FeatureNamesMatchRequest ==
  appState.modelId # NoModel =>
    LET req == jobs[appState.modelId].request
    IN  Range(appState.featureNames)
          = SchemaNames \ ({req.target_column} \cup req.excluded_columns)

\* C8: the call that starts a training returns before the training
\* completes: no train request is held open while its training runs.
C8_TrainingSignalledAsynchronously ==
  \A r \in DOMAIN jobs : ~(jobs[r].http = "open" /\ jobs[r].state = "running")

\* C9: currentStep advances by exactly one step at a time and never moves to
\* an earlier step, except by resetApp, which returns to 'upload' with
\* sessionId, modelId and featureNames cleared.
C9_StepsInOrder ==
  [][appState'.currentStep # appState.currentStep
       => \/ StepIndex(appState'.currentStep) = StepIndex(appState.currentStep) + 1
          \/ appState' = DashboardInit]_vars

\* the message shown for a failed request is readable and is the server's
\* detail text when there is one
SurfacedAsError(t, detail) ==
  /\ t.level = "error"
  /\ t.msg # ""
  /\ detail # NoDetail => t.msg = detail

\* C10: a failed train or predict request is surfaced as a human-readable
\* error message (the server's detail text when present) and is never
\* retried: a step sends at most one request, and the step in which a
\* request settles sends none.
C10_ErrorsSurfacedNoRetry ==
  [][/\ Len(jobs') + Len(predReqs') <= Len(jobs) + Len(predReqs) + 1
     /\ \A r \in DOMAIN jobs :
          (jobs[r].http = "open" /\ jobs'[r].http # "open")
            => /\ Len(jobs') = Len(jobs) /\ Len(predReqs') = Len(predReqs)
               /\ jobs'[r].http \in {"error", "timeout"}
                    => SurfacedAsError(toast', jobs'[r].detail)
     /\ \A q \in DOMAIN predReqs :
          (predReqs[q].http = "open" /\ predReqs'[q].http # "open")
            => /\ Len(jobs') = Len(jobs) /\ Len(predReqs') = Len(predReqs)
               /\ predReqs'[q].http = "error"
                    => SurfacedAsError(toast', predReqs'[q].detail)]_vars

\* a train request and a predict request failed, the latter with a detail
\* text that the toast shows
C10_Witness ==
  /\ \E r \in DOMAIN jobs : jobs[r].http = "error"
  /\ \E q \in DOMAIN predReqs :
       /\ predReqs[q].http = "error"
       /\ predReqs[q].detail # NoDetail
       /\ toast = ToastError(predReqs[q].detail)

\* the name ends in '.csv' whatever the case of its letters
HasCsvExtension(name) ==
  /\ Len(name) >= 4
  /\ name[Len(name) - 3] = "."
  /\ name[Len(name) - 2] \in {"c", "C"}
  /\ name[Len(name) - 1] \in {"s", "S"}
  /\ name[Len(name)] \in {"v", "V"}

Uploadable(file) == HasCsvExtension(file.name) /\ file.size <= 50 * 1024 * 1024

\* the step drops a file other than the one dropped before
Drops(file) == lastDrop' = <<file>> /\ lastDrop' # lastDrop

\* the dropped file is refused with an error: nothing is sent, nothing changes
RefusedWithError ==
  /\ ReportsFailure(toast')
  /\ uploads' = uploads
  /\ fileUpload' = fileUpload
  /\ ~fileUpload'.isUploading
  /\ appState' = appState

\* C11: an upload request is issued only for a file whose name ends
\* in '.csv' (any case) and whose size is at most 50MB; for any other dropped
\* file an error is shown, no request is sent, onUploadSuccess is not called,
\* isUploading stays false and uploadProgress is unchanged.
C11_OnlyCsvUnder50MB ==
  [][/\ \A i \in DOMAIN uploads' : Uploadable(uploads'[i].file)
     /\ \A f \in DroppedFiles :
          (Drops(f) /\ ~Uploadable(f)) => RefusedWithError]_vars

\* request q is one the step sends
SentNow(q) == q \in DOMAIN authReqs' /\ q \notin DOMAIN authReqs

\* request q gets its final outcome in the step
SettlesNow(q) ==
  /\ q \in DOMAIN authReqs
  /\ authReqs[q].state \in {"open", "waiting"}
  /\ authReqs'[q].state \in {"ok", "failed"}

\* C12: handling a 401 in the auth client terminates: the refresh requests
\* the response interceptor sends do not feed on themselves, so a
\* user-initiated request causes a bounded number of refresh, logout and
\* retry calls whatever the server answers: the answer to a refresh request
\* never causes another refresh request.
C12_RefreshHandlingTerminates ==
  [][\A q \in DOMAIN authReqs' :
       (SentNow(q) /\ authReqs'[q].kind = "refresh")
         => authReqs'[authReqs'[q].parent].kind # "refresh"]_vars

\* C13: an authApi request that fails with 401 is sent again at most once,
\* and only in the step in which its refresh request succeeded and the new
\* access_token and refresh_token were stored; the request sent again
\* carries the new access token. Without a stored refresh_token the 401 is
\* rejected with no refresh request, no retry and no change of localStorage
\* by the interceptor (logout's own finally block aside).
C13_RetryOnceAfterRefresh ==
  [][\A q \in DOMAIN authReqs :
       authReqs[q].client = "authApi" =>
         /\ authReqs'[q].sends <= 2
         /\ authReqs'[q].sends > authReqs[q].sends =>
              \E f \in DOMAIN authReqs :
                /\ authReqs[f].kind = "refresh" /\ authReqs[f].parent = q
                /\ authReqs[f].state = "open" /\ authReqs'[f].state = "ok"
                /\ authReqs'[f].status = 200
                /\ storage'.access_token = Token(f)
                /\ storage'.refresh_token = Token(f)
                /\ authReqs'[q].auth = Token(f)
                /\ authReqs'[q].state = "open"
         /\ (/\ authReqs[q].state = "open" /\ authReqs'[q].status = 401
             /\ authReqs'[q].state # "open" /\ storage.refresh_token = NoToken) =>
              /\ authReqs'[q].state = "failed"
              /\ authReqs'[q].sends = authReqs[q].sends
              /\ \A g \in DOMAIN authReqs' : SentNow(g) => authReqs'[g].kind # "refresh"
              /\ authReqs[q].kind # "logout" => storage' = storage]_vars

\* a request got a 401, its refresh succeeded, it was sent again with the
\* new token while the new tokens were stored, and the retry succeeded
C13_Witness ==
  \E q, f \in DOMAIN authReqs :
    /\ authReqs[q].sends = 2 /\ authReqs[f].parent = q /\ authReqs[f].state = "ok"
    /\ authReqs[f].kind = "refresh" /\ authReqs[q].auth = Token(f)
    /\ authReqs[q].state = "ok" /\ authReqs[q].retry
    /\ storage.access_token = Token(f)

\* a key of localStorage gets a value in the step
WritesStorage ==
  \/ storage'.access_token \notin {NoToken, storage.access_token}
  \/ storage'.refresh_token \notin {NoToken, storage.refresh_token}
  \/ storage'.user_profile \notin {NoUser, storage.user_profile}

\* C14: once a logout has completed, nothing is written to access_token,
\* refresh_token or user_profile until the next login or register, also
\* when a refresh or a profile fetch started before the logout completes
\* afterwards.
C14_NoWriteAfterLogout ==
  [][\A l \in DOMAIN authReqs :
       (/\ authReqs[l].kind = "logout" /\ authReqs[l].state \in {"ok", "failed"}
        /\ \A g \in DOMAIN authReqs : g > l => authReqs[g].kind \notin {"login", "register"})
         => ~WritesStorage]_vars

\* C15: when logout() of the auth service settles, access_token,
\* refresh_token and user_profile are absent from localStorage whether the
\* /auth/logout call succeeded or failed, and logout() does not reject.
C15_LogoutAlwaysClears ==
  [][\A q \in DOMAIN authReqs :
       (SettlesNow(q) /\ authReqs[q].kind = "logout")
         => storage' = ClearedStorage /\ authReqs'[q].flowResult = "resolved"]_vars

\* a logout whose API call failed has settled and the storage is cleared
C15_Witness ==
  \E q \in DOMAIN authReqs :
    /\ authReqs[q].kind = "logout" /\ authReqs[q].state = "failed"
    /\ authReqs[q].flowResult = "resolved" /\ authReqs[q].auth # NoToken
    /\ storage = ClearedStorage

\* C16: when a request of the data API client receives a 401, the three keys
\* are removed from localStorage, the browser is sent to /auth, the error is
\* rejected to the caller, and no refresh and no retry is attempted.
C16_DataApiUnauthorized ==
  [][\A q \in DOMAIN authReqs :
       (/\ authReqs[q].client = "api" /\ authReqs[q].state = "open"
        /\ authReqs'[q].state # "open" /\ authReqs'[q].status = 401)
         => /\ storage' = ClearedStorage
            /\ location' = [href |-> "/auth", loading |-> TRUE]
            /\ authReqs'[q].state = "failed"
            /\ authReqs'[q].flowResult = "rejected"
            /\ authReqs'[q].sends = 1
            /\ Len(authReqs') = Len(authReqs)]_vars

\* a data request of a signed-in user was answered with 401
C16_Witness ==
  \E q \in DOMAIN authReqs :
    /\ authReqs[q].client = "api" /\ authReqs[q].status = 401
    /\ authReqs[q].auth # NoToken /\ authReqs[q].state = "failed"
    /\ storage = ClearedStorage /\ location.href = "/auth"

\* C17: whenever AuthContext reports the user as authenticated (user
\* non-null, isLoading false), an access_token is present in localStorage.
C17_AuthenticatedHasToken ==
  (authCtx.user # NoUser /\ ~authCtx.isLoading) => storage.access_token # NoToken

AttemptOf(q) ==
  IF authReqs[q].kind \in {"login", "register"} THEN q
  ELSE CHOOSE g \in DOMAIN authReqs :
         /\ g < q /\ authReqs[g].kind = authReqs[q].flow
         /\ \A h \in DOMAIN authReqs :
              (h < q /\ authReqs[h].kind = authReqs[q].flow) => h <= g

\* C19: a failed login or register leaves the authentication state as it
\* was: whether the credentials call or the profile fetch fails, user is
\* unchanged (null), isLoading is false again, the error is rethrown, and no
\* access_token or refresh_token of the attempt remains in localStorage.
C19_FailedLoginLeavesNoTrace ==
  [][\A q \in DOMAIN authReqs :
       (/\ authReqs[q].flow \in {"login", "register"}
        /\ SettlesNow(q) /\ authReqs'[q].state = "failed")
         => /\ authCtx'.user = authCtx.user
            /\ ~authCtx'.isLoading
            /\ authReqs'[q].flowResult = "rejected"
            /\ storage'.access_token # Token(AttemptOf(q))
            /\ storage'.refresh_token # Token(AttemptOf(q))]_vars

\* C21: the input form of ModelPredictions is built from the features of the
\* currently selected model: whenever no getModelFeatures request is in
\* flight and features are shown, modelFeatures is the list returned for
\* selectedModel and every row has the keys initialised from that list
\* (keys that an edit adds are the subject of C4), whatever the order in
\* which the responses to two selections arrive.
C21_FormOfSelectedModel ==
  (/\ mp.mounted /\ mpFeatureReqs = <<>>
   /\ mp.selectedModel # NoModel /\ mp.modelFeatures # <<>>)
    => /\ mp.modelFeatures = CatalogFeatures(mp.selectedModel)
       /\ \A i \in DOMAIN mp.inputData :
            EncodedColumns(CatalogFeatures(mp.selectedModel)) \subseteq DOMAIN mp.inputData[i]

\* the one-hot columns the form holds for feature f
OwnColumns(f) == {OneHotColumn(f.name, c) : c \in Range(f.sample_values)}

\* the step leaves the value of feature g in row i as it was
FeatureUnchanged(i, g) ==
  LET old == mp.inputData[i]
      new == mp'.inputData[i]
      cols == IF IsGrouped(g) THEN OwnColumns(g) ELSE {g.name}
  IN  \A k \in cols :
        /\ k \in DOMAIN old <=> k \in DOMAIN new
        /\ k \in DOMAIN old => new[k] = old[k]

\* C22: changing the selected category of a categorical feature in a row
\* changes only that feature's own one-hot columns in that row: the value of
\* every other feature, also of one whose name begins with the categorical
\* feature's name followed by '_', and every other row stay as they were.
C22_CategoryChangeIsLocal ==
  [][\A i \in 1..MaxRows, fi \in 1..2, v \in InputCells :
       MPSelectChange(i, fi, v) =>
         /\ Len(mp'.inputData) = Len(mp.inputData)
         /\ \A j \in DOMAIN mp.inputData : j # i => mp'.inputData[j] = mp.inputData[j]
         /\ \A gi \in DOMAIN mp.modelFeatures :
              gi # fi => FeatureUnchanged(i, mp.modelFeatures[gi])]_vars

\* the pairings of task type and algorithm the trainer supports
SupportedPairing(taskType, algorithm) ==
  \/ algorithm \in {"random_forest", "xgboost"}
  \/ algorithm = "logistic_regression" /\ taskType = "classification"
  \/ algorithm = "linear_regression" /\ taskType = "regression"

\* C23: every train request ModelTraining sends carries a supported pairing
\* of task type and algorithm, whatever the user chose in the Model Type and
\* Algorithm selects.
C23_SupportedPairingOnly ==
  \A r \in DOMAIN jobs :
    SupportedPairing(jobs[r].request.model_type, jobs[r].request.algorithm)

=============================================================================
